---- MODULE Spec2Model ----
(***************************************************************************)
(* cloudinit/user_data/processor.py: UserDataProcessor.                    *)
(*                                                                         *)
(* process(blob) parses a user-data blob into a message tree and expands   *)
(* it into one MIMEMultipart container: plain leaves are attached,         *)
(* include leaves are replaced by the expansion of the URLs they list      *)
(* (fetched, or loaded from the include-once cache), archive leaves are    *)
(* replaced by one part per archive entry.                                 *)
(*                                                                         *)
(* The recursion process -> _process_msg -> _do_include -> _process_msg    *)
(* is modelled with an explicit call stack; one action is one iteration of *)
(* one of the three loops, or a return from one of them.                   *)
(*                                                                         *)
(* Text is modelled as a sequence of lines, a line as a sequence of        *)
(* tokens (a directive marker, whitespace, a URL, a word).  A content type *)
(* "a/b" is the sequence <<"a", "b">>, so that split('/') is computed.     *)
(***************************************************************************)
EXTENDS Integers, Sequences, FiniteSets, TLC

VARIABLES
  pc,         \* "idle" | "running" | "returned" | "raised": state of the current process() call
  runs,       \* number of process() calls made so far
  input,      \* the blob given to the current process() call
  stack,      \* call stack: frames of _process_msg / _do_include / _explode_archive
  container,  \* process_msg: the MIMEMultipart the current call accumulates into
  meta,       \* history: for each child of container, how and from where it was attached
  cache,      \* the urlcache directory: cache file name -> content, or NoFile
  io,         \* the network and file operations of the last step
  firstDoc,   \* history: URL -> the content of its first successful include-once fetch
  firstExp    \* history: URL -> what the first successful include-once expansion attached

vars == <<pc, runs, input, stack, container, meta, cache, io, firstDoc, firstExp>>

----------------------------------------------------------------------------
(* Bounds of the model *)

\* process() calls per behaviour
MaxRuns == 2
\* call stack depth (frames); a deeper call is not explored
MaxDepth == 5

----------------------------------------------------------------------------
(* Constants of processor.py, lines 35-50 *)

TYPE_NEEDED == {<<"text", "plain">>, <<"text", "x-not-multipart">>}
INCLUDE_TYPES == {<<"text", "x-include-url">>, <<"text", "x-include-once-url">>}
ARCHIVE_TYPES == {<<"text", "cloud-config-archive">>}
UNDEF_TYPE == <<"text", "plain">>
ARCHIVE_UNDEF_TYPE == <<"text", "cloud-config">>
\* the header whose values a container keeps in its field na
ATTACHMENT_FIELD == "Number-Attachments"

\* Python's None for a content type or a header value, and the empty string
None == <<>>

----------------------------------------------------------------------------
(* Python conversions used by the bookkeeping: str(int), int(str), '%03d' *)

DigitChars == <<"0", "1", "2", "3", "4", "5", "6", "7", "8", "9">>

RECURSIVE str(_)
str(n) == IF n < 10 THEN <<DigitChars[n + 1]>>
          ELSE str(n \div 10) \o <<DigitChars[(n % 10) + 1]>>

IsDigits(s) == Len(s) > 0 /\ \A k \in 1..Len(s) : \E d \in 1..10 : DigitChars[d] = s[k]

DigitVal(c) == (CHOOSE d \in 1..10 : DigitChars[d] = c) - 1

RECURSIVE int(_)
int(s) == IF Len(s) = 1 THEN DigitVal(s[1])
          ELSE 10 * int(SubSeq(s, 1, Len(s) - 1)) + DigitVal(s[Len(s)])

\* ud.PART_FN_TPL % n, 'part-%03d'
RECURSIVE ZeroPad(_, _)
ZeroPad(s, w) == IF Len(s) >= w THEN s ELSE ZeroPad(<<"0">> \o s, w)

PART_FN_TPL(n) == <<"part-">> \o ZeroPad(str(n), 3)

----------------------------------------------------------------------------
(* Messages *)

\* A payload: its text (lines of tokens) and what the YAML decoder makes of
\* that text: "list" with the decoded entries, "scalar" (not a list), "error".
Txt(lines) == [text |-> lines, yaml |-> [t |-> "scalar", v |-> <<>>]]
Arc(lines, entries) == [text |-> lines, yaml |-> [t |-> "list", v |-> entries]]
Bad(lines) == [text |-> lines, yaml |-> [t |-> "error", v |-> <<>>]]

\* A message node: its Content-Type header (None: no header) with the name
\* and charset parameters of that header (None, "": no parameter), its
\* payload, its Content-Disposition filenames (one per header; a filename is
\* a sequence of tokens), its sub-parts and its other headers.
Node(ctype, payload, disp, children) ==
  [ctype |-> ctype, name |-> <<>>, charset |-> "", payload |-> payload, disp |-> disp,
   children |-> children, xhdr |-> {}]

Leaf(ctype, payload) == Node(ctype, payload, <<>>, <<>>)
\* a leaf with Content-Disposition: attachment; filename=fn
Named(ctype, payload, fn) == Node(ctype, payload, <<fn>>, <<>>)
\* a leaf with Content-Type: ctype; name=fn and no Content-Disposition
TypeNamed(ctype, payload, fn) == [Leaf(ctype, payload) EXCEPT !.name = fn]
Multi(children) == Node(<<"multipart", "mixed">>, Txt(<<>>), <<>>, children)

\* email.message.Message.get_content_type(): the header, or text/plain when it
\* is missing or not of the form main/sub
get_content_type(part) == IF Len(part.ctype) = 2 THEN part.ctype ELSE <<"text", "plain">>

get_content_maintype(part) == get_content_type(part)[1]

\* email.message.Message.get_filename(): the filename parameter of the first
\* Content-Disposition header, else the name parameter of Content-Type
get_filename(part) == IF part.disp # <<>> THEN part.disp[1] ELSE part.name

\* email.message.Message.walk(): the node, then its sub-parts, depth first
RECURSIVE walk(_)
RECURSIVE walkAll(_)
walk(msg) == <<msg>> \o walkAll(msg.children)
walkAll(msgs) == IF msgs = <<>> THEN <<>> ELSE walk(Head(msgs)) \o walkAll(Tail(msgs))

----------------------------------------------------------------------------
(* Text helpers: str.startswith, str.lstrip, str.strip on lines of tokens *)

\* the markers a token starts with
TokPrefixes(tok) ==
  CASE tok = "#include-once" -> {"#include-once", "#include", "#"}
    [] tok = "#include" -> {"#include", "#"}
    [] tok = "#cloud-config-archive" -> {"#cloud-config-archive", "#cloud-config", "#"}
    [] tok = "#cloud-config" -> {"#cloud-config", "#"}
    [] tok = "#!" -> {"#!", "#"}
    [] tok = "#c" -> {"#"}
    [] OTHER -> {}

startswith(line, marker) == Len(line) > 0 /\ marker \in TokPrefixes(line[1])

RECURSIVE lstrip(_)
lstrip(line) == IF Len(line) > 0 /\ line[1] = " " THEN lstrip(Tail(line)) ELSE line

RECURSIVE rstrip(_)
rstrip(line) == IF Len(line) > 0 /\ line[Len(line)] = " "
                THEN rstrip(SubSeq(line, 1, Len(line) - 1)) ELSE line

strip(line) == rstrip(lstrip(line))

----------------------------------------------------------------------------
(* Collaborators of the processor: cloudinit.user_data, cloudinit.util,     *)
(* cloudinit.url_helper                                                    *)

\* A blob is a MIME document (given by the tree its text parses to) or a bare
\* string.
Mime(msg) == [mime |-> TRUE, msg |-> msg]
Raw(payload) == [mime |-> FALSE, msg |-> payload]

\* ud.convert_string: a MIME document parses to its tree, any other string
\* (the empty one included) becomes one leaf of type text/x-not-multipart
convert_string(blob) ==
  IF blob.mime THEN blob.msg ELSE Leaf(<<"text", "x-not-multipart">>, blob.msg)

\* ud.INCLUSION_TYPES_MAP, and its keys longest first (ud.INCLUSION_SRCH)
INCLUSION_TYPES_MAP(text) ==
  CASE text = "#include" -> <<"text", "x-include-url">>
    [] text = "#include-once" -> <<"text", "x-include-once-url">>
    [] text = "#!" -> <<"text", "x-shellscript">>
    [] text = "#cloud-config" -> <<"text", "cloud-config">>
    [] text = "#cloud-config-archive" -> <<"text", "cloud-config-archive">>

INCLUSION_SRCH == <<"#cloud-config-archive", "#include-once", "#cloud-config", "#include", "#!">>

\* payload.startswith(text): the payload's first line begins with text
PayloadStartsWith(payload, text) ==
  Len(payload.text) > 0 /\ startswith(payload.text[1], text)

\* ud.type_from_starts_with: the type of the first (longest) matching prefix
type_from_starts_with(payload, default) ==
  LET hits == {k \in 1..Len(INCLUSION_SRCH) : PayloadStartsWith(payload, INCLUSION_SRCH[k])}
  IN IF hits = {} THEN default
     ELSE INCLUSION_TYPES_MAP(INCLUSION_SRCH[CHOOSE k \in hits : \A j \in hits : k <= j])

\* util.load_yaml(archive, default=[], allowed=[list, set]): the decoded list,
\* or the default when the text does not decode to a list
load_yaml(payload) == IF payload.yaml.t = "list" THEN payload.yaml.v ELSE <<>>

\* url_helper.ok_http_code
ok_http_code(st) == st \in 200..299

----------------------------------------------------------------------------
(* processor.py: the pure parts *)

\* a variant of lines 78-79 that sniffs the payload whatever the declared type
CorrectedType_AlwaysSniff(part) ==
  LET ctype_orig == IF get_content_type(part) = None THEN UNDEF_TYPE
                    ELSE get_content_type(part)
      sniffed == type_from_starts_with(part.payload, None)
  IN IF sniffed = None THEN ctype_orig ELSE sniffed

\* _process_msg, lines 71-82: the type a leaf is handled as
CorrectedType(part) ==
  LET ctype_orig == IF get_content_type(part) = None THEN UNDEF_TYPE
                    ELSE get_content_type(part)
      sniffed == IF ctype_orig \in TYPE_NEEDED
                 THEN type_from_starts_with(part.payload, None) ELSE None
  IN IF sniffed = None THEN ctype_orig ELSE sniffed

\* _get_include_once_filename: the md5 digest of the URL under urlcache/.  The
\* digest is modelled as the tagged URL: distinct URLs of the model get
\* distinct files.
get_include_once_filename(entry) == <<"urlcache", "md5">> \o entry

\* The MIMEMultipart() made by process(): no Number-Attachments header, no parts
MIMEMultipart == [na |-> <<>>, children |-> <<>>]

\* _multi_part_count(outer_msg, new_count): new_count is <<>> for None, <<n>>
\* otherwise.  The result is the message as the call leaves it and the count.
\* outer_msg.na is the list of Number-Attachments header values.
multi_part_count(outer_msg, new_count) ==
  LET m1 == IF outer_msg.na = <<>> THEN [outer_msg EXCEPT !.na = <<str(0)>>] ELSE outer_msg
      m2 == IF new_count # <<>> THEN [m1 EXCEPT !.na[1] = str(new_count[1])] ELSE m1
  IN IF IsDigits(m2.na[1])
     THEN [msg |-> m2, count |-> int(m2.na[1])]
     ELSE [msg |-> [m2 EXCEPT !.na[1] = str(0)], count |-> 0]

\* a variant of _attach_part that does not store the new count (line 204 missing)
attach_part_stale(outer_msg, part) ==
  LET c == multi_part_count(outer_msg, <<>>)
      cur == c.count
      p == IF get_filename(part) = None
           THEN [part EXCEPT !.disp = Append(@, PART_FN_TPL(cur + 1))]
           ELSE part
  IN [c.msg EXCEPT !.children = Append(@, p)]

\* a variant of _attach_part that puts the part in front of the others
attach_part_front(outer_msg, part) ==
  LET c == multi_part_count(outer_msg, <<>>)
      cur == c.count
      p == IF get_filename(part) = None
           THEN [part EXCEPT !.disp = Append(@, PART_FN_TPL(cur + 1))]
           ELSE part
      attached == [c.msg EXCEPT !.children = <<p>> \o @]
  IN multi_part_count(attached, <<cur + 1>>).msg

\* _attach_part(outer_msg, part): the message after the call
attach_part(outer_msg, part) ==
  LET c == multi_part_count(outer_msg, <<>>)
      cur == c.count
      p == IF get_filename(part) = None
           THEN [part EXCEPT !.disp = Append(@, PART_FN_TPL(cur + 1))]
           ELSE part
      attached == [c.msg EXCEPT !.children = Append(@, p)]
  IN multi_part_count(attached, <<cur + 1>>).msg

\* _attach_part synthesizes a filename for this part
Synthesizes(part) == get_filename(part) = None

\* _explode_archive, lines 147-151: a string entry becomes {'content': ent};
\* an entry that is then no dict is skipped.  An entry is [t, v]: t its Python
\* type and v its value, a dict being a record.  The decoder gives a text
\* scalar as a str when it is ASCII and as a unicode otherwise, and
\* isinstance(ent, str) is false of a unicode.
EntryDict(ent) == IF ent.t = "str" THEN [content |-> ent.v] ELSE ent.v

EntrySkipped(ent) == ent.t \notin {"str", "dict"}

\* lines 153-156
EntryContent(d) == IF "content" \in DOMAIN d THEN d.content ELSE Txt(<<>>)

EntryType(d) ==
  LET mtype == IF "type" \in DOMAIN d THEN d.type ELSE None
  IN IF mtype = None THEN type_from_starts_with(EntryContent(d), ARCHIVE_UNDEF_TYPE)
     ELSE mtype

\* the keys that become extra headers, lines 169-172
EntryExtraKeys(d) == DOMAIN d \ {"content", "filename", "type"}

\* line 158 raises ValueError when the type has no '/', line 172 raises
\* KeyError when there is an extra key and no key 'header'
EntryRaises(ent) ==
  LET d == EntryDict(ent)
  IN \/ Len(EntryType(d)) # 2
     \/ EntryExtraKeys(d) # {} /\ "header" \notin DOMAIN d

\* lines 158-172: the part made of an entry
EntryPart(ent) ==
  LET d == EntryDict(ent)
      mtype == EntryType(d)
      maintype == mtype[1]
      subtype == mtype[2]
  IN [ctype |-> <<maintype, subtype>>,
      name |-> None,
      payload |-> EntryContent(d),
      disp |-> IF "filename" \in DOMAIN d THEN <<d.filename>> ELSE <<>>,
      children |-> <<>>,
      xhdr |-> {<<header, d.header>> : header \in EntryExtraKeys(d)},
      charset |-> IF maintype = "text" THEN "us-ascii" ELSE ""]

\* a variant of lines 111-118 that takes every line as an "#include-once" line
IncludeLine_AllOnce(line) ==
  LET bare == line \in {<<"#include">>, <<"#include-once">>}
      rest == IF startswith(line, "#include") THEN lstrip(Tail(line)) ELSE line
      include_url == strip(rest)
  IN [skip |-> bare \/ startswith(rest, "#") \/ include_url = <<>>,
      includeonce |-> TRUE,
      url |-> include_url]

\* _do_include, lines 111-123: what a line of an include payload asks for
IncludeLine(line) ==
  LET bare == line \in {<<"#include">>, <<"#include-once">>}
      includeonce == startswith(line, "#include-once")
      rest == IF includeonce \/ startswith(line, "#include") THEN lstrip(Tail(line)) ELSE line
      include_url == strip(rest)
  IN [skip |-> bare \/ startswith(rest, "#") \/ include_url = <<>>,
      includeonce |-> includeonce,
      url |-> include_url]

----------------------------------------------------------------------------
(* The documents and the remote server of the model *)

U1 == <<"u1">>
U2 == <<"u2">>
U3 == <<"u3">>
U4 == <<"u4">>
KnownURLs == {U1, U2, U3, U4}

P_hello == Txt(<< <<"hello">> >>)
P_sh == Txt(<< <<"#!", "/bin/sh">> >>)
P_cfg == Txt(<< <<"#cloud-config">>, <<"a: 1">> >>)
P_empty == Txt(<<>>)
P_err == Txt(<< <<"Not Found">> >>)
P_archive == << <<"#cloud-config-archive">> >>

\* url_helper.readurl(url): the (content, status) pairs the server may answer
\* with.  u1 serves a text that changes over time, u2 a document that includes
\* u1, u3 a document that includes itself by "#include-once", u4 one that
\* includes itself by "#include".
readurl(url) ==
  CASE url = U1 -> {[content |-> Raw(P_hello), st |-> 200],
                    [content |-> Raw(P_sh), st |-> 200],
                    [content |-> Raw(P_err), st |-> 404]}
    [] url = U2 -> {[content |-> Raw(Txt(<< <<"#include">>, <<"u1">> >>)), st |-> 200],
                    [content |-> Raw(P_err), st |-> 404]}
    [] url = U3 -> {[content |-> Raw(Txt(<< <<"#include-once", " ", "u3">> >>)), st |-> 200]}
    [] url = U4 -> {[content |-> Raw(Txt(<< <<"#include", " ", "u4">> >>)), st |-> 200]}
    [] OTHER -> {[content |-> Raw(P_err), st |-> 404]}

E_str == [t |-> "str", v |-> P_hello]
E_int == [t |-> "int", v |-> 42]
E_unicode == [t |-> "unicode", v |-> Txt(<< <<"h\\xe9llo">> >>)]
E_named == [t |-> "dict", v |-> [content |-> P_hello, filename |-> <<"f.txt">>]]
E_sniffed == [t |-> "dict", v |-> [content |-> P_sh]]
E_binary == [t |-> "dict", v |-> [type |-> <<"application", "octet-stream">>]]
E_multi == [t |-> "dict", v |-> [content |-> P_hello, type |-> <<"multipart", "mixed">>]]
E_include == [t |-> "dict", v |-> [content |-> Txt(<< <<"u1">> >>), type |-> <<"text", "x-include-url">>]]
E_notype == [t |-> "dict", v |-> [content |-> P_hello, type |-> <<"bogus">>]]
E_header == [t |-> "dict", v |-> [content |-> P_hello, header |-> "h", launch |-> "v"]]
E_extra == [t |-> "dict", v |-> [content |-> P_hello, launch |-> "v"]]

In_text == Raw(P_hello)
In_empty == Raw(P_empty)
In_include == Raw(Txt(<< <<"#include">>, <<"#include", " ", "u1">>, <<"#c">>, <<>>, <<"u1", " ">> >>))
In_once == Raw(Txt(<< <<"#include-once">>, <<"#include-once", " ", "u1">>,
                      <<"#include-once", " ", "u2">> >>))
In_skipped == Raw(Txt(<< <<"#include">>, <<"#include", " ", "#c">>, <<" ">> >>))
In_cycle == Raw(Txt(<< <<"#include-once", " ", "u3">> >>))
In_cycle_plain == Raw(Txt(<< <<"#include", " ", "u4">> >>))
In_archive == Raw(Arc(P_archive, <<E_str, E_named, E_int, E_sniffed, E_binary, E_multi, E_include, E_unicode>>))
In_archive_notype == Raw(Arc(P_archive, <<E_str, E_notype, E_str>>))
In_archive_extra == Raw(Arc(P_archive, <<E_header, E_extra, E_str>>))
In_archive_empty == Raw(Arc(P_archive, <<>>))
In_flat == Mime(Multi(<< Leaf(<<"text", "plain">>, P_hello),
                         Named(<<"text", "x-shellscript">>, P_sh, <<"f.sh">>),
                         Leaf(<<"text", "plain">>, P_sh),
                         Leaf(None, P_cfg),
                         TypeNamed(<<"text", "x-shellscript">>, P_sh, <<"g.sh">>) >>))
In_nested == Mime(Multi(<< Multi(<< Leaf(<<"text", "plain">>, P_hello),
                                    Leaf(<<"text", "x-include-url">>, Txt(<< <<"u1">> >>)) >>),
                           Leaf(<<"text", "cloud-config-archive">>, Arc(<<>>, <<E_str>>)),
                           Leaf(<<"text", "cloud-config-archive">>, Bad(<< <<"{">> >>)),
                           Leaf(<<"text", "cloud-config-archive">>, P_hello),
                           Leaf(<<"text", "x-shellscript">>, Txt(<< <<"#include", " ", "u1">> >>)) >>))
In_single == Mime(Leaf(None, P_sh))
In_single_named == Mime(TypeNamed(<<"text", "plain">>, P_hello, <<"h.txt">>))
In_single_once == Mime(Leaf(<<"text", "plain">>, Txt(<< <<"#include-once", " ", "u1">> >>)))
\* a URL included by "#include" and then by "#include-once"
In_mixed == Raw(Txt(<< <<"#include", " ", "u1">>, <<"#include-once", " ", "u1">> >>))
\* include-once parts, by sniffing and by declaration, whose URL lines have no marker
In_once_bare == Raw(Txt(<< <<"#include-once">>, <<"u1">>, <<"u1">> >>))
In_once_type == Mime(Leaf(<<"text", "x-include-once-url">>, Txt(<< <<"u1">> >>)))

Inputs == {In_text, In_empty, In_include, In_once, In_skipped, In_cycle, In_cycle_plain, In_archive,
           In_archive_notype, In_archive_extra, In_archive_empty, In_flat, In_nested,
           In_single, In_single_named, In_single_once, In_mixed,
           In_once_bare, In_once_type}

----------------------------------------------------------------------------
(* State *)

Files == {get_include_once_filename(u) : u \in KnownURLs}

\* a variant of os.path.isfile that finds no file
isfile_Never(files, fn) == FALSE

\* os.path.isfile on a cache file; a file's content is <<blob>>, no file is <<>>
isfile(files, fn) == files[fn] # <<>>

NoIO == [fetch |-> <<>>, read |-> <<>>, write |-> <<>>]

NoOrigin == [how |-> "process", once |-> FALSE, url |-> <<>>, ok |-> TRUE]

\* a call of _process_msg(base_msg, append_msg): the nodes of base_msg.walk(),
\* nodes[1] being base_msg itself, the next one to visit, the number of parts
\* of the container at the call, and where base_msg comes from
WalkFrame(base_msg, origin) ==
  [kind |-> "walk", nodes |-> walk(base_msg), i |-> 1,
   start |-> Len(container.children), origin |-> origin]

\* a call of _do_include(content, append_msg); ctype is history, the type of
\* the part the content is the payload of
IncludeFrame(content, ctype) ==
  [kind |-> "include", lines |-> content.text, i |-> 1, start |-> Len(container.children),
   ctype |-> ctype]

ArchiveFrame(archive) ==
  [kind |-> "archive", entries |-> load_yaml(archive), i |-> 1,
   start |-> Len(container.children)]

Top == stack[Len(stack)]
Advance == [stack EXCEPT ![Len(stack)].i = @ + 1]
Pop == SubSeq(stack, 1, Len(stack) - 1)

\* history: where the loops of the running calls stand, outermost first: the
\* place in the document, in depth-first order, of what is being handled (a
\* caller's index is advanced when it makes its call)
Address == [k \in 1..Len(stack) |-> IF k < Len(stack) THEN stack[k].i - 1 ELSE stack[k].i]

\* history: the record kept of an attached part
Attached(via, declared, part) ==
  [via |-> via, declared |-> declared, synth |-> Synthesizes(part),
   addr |-> Address, payload |-> part.payload]

Running(kind) == pc = "running" /\ stack # <<>> /\ Top.kind = kind

Init ==
  /\ pc = "idle"
  /\ runs = 0
  /\ input = <<>>
  /\ stack = <<>>
  /\ container = MIMEMultipart
  /\ meta = <<>>
  /\ cache = [fn \in Files |-> <<>>]
  /\ io = NoIO
  /\ firstDoc = [u \in KnownURLs |-> <<>>]
  /\ firstExp = [u \in KnownURLs |-> <<>>]

----------------------------------------------------------------------------
(* process, lines 59-63 *)

Process ==
  /\ pc # "running"
  /\ runs < MaxRuns
  /\ \E blob \in Inputs :
       /\ input' = blob
       /\ stack' = <<[WalkFrame(convert_string(blob), NoOrigin) EXCEPT !.start = 0]>>
  /\ pc' = "running"
  /\ runs' = runs + 1
  /\ container' = MIMEMultipart
  /\ meta' = <<>>
  /\ io' = NoIO
  /\ UNCHANGED <<cache, firstDoc, firstExp>>

----------------------------------------------------------------------------
(* _process_msg, lines 65-97: one iteration of the loop over base_msg.walk() *)

Part == Top.nodes[Top.i]

Visiting == Running("walk") /\ Top.i <= Len(Top.nodes)

\* lines 92-95: the corrected type is written to base_msg (nodes[1]), not to
\* the part visited (nodes[i]): it replaces the Content-Type header, with its
\* parameters, or adds one
StampType(nodes, i, ctype) ==
  IF nodes[1].ctype # None
  THEN [nodes EXCEPT ![1] = [@ EXCEPT !.ctype = ctype, !.name = None, !.charset = ""]]
  ELSE [nodes EXCEPT ![1].ctype = ctype]

\* a variant of lines 68-69 that attaches the multipart node before going on
SkipMultipart_Attached ==
  /\ Visiting
  /\ get_content_maintype(Part) = "multipart"
  /\ stack' = Advance
  /\ container' = attach_part(container, Part)
  /\ meta' = Append(meta, Attached("leaf", Part.ctype, Part))
  /\ io' = NoIO
  /\ UNCHANGED <<pc, runs, input, cache, firstDoc, firstExp>>

\* lines 68-69
SkipMultipart ==
  /\ Visiting
  /\ get_content_maintype(Part) = "multipart"
  /\ stack' = Advance
  /\ io' = NoIO
  /\ UNCHANGED <<pc, runs, input, container, meta, cache, firstDoc, firstExp>>

\* lines 84-86: the call of _do_include
CallInclude ==
  /\ Visiting
  /\ get_content_maintype(Part) # "multipart"
  /\ CorrectedType(Part) \in INCLUDE_TYPES
  /\ Len(stack) < MaxDepth
  /\ stack' = Append(Advance, IncludeFrame(Part.payload, CorrectedType(Part)))
  /\ io' = NoIO
  /\ UNCHANGED <<pc, runs, input, container, meta, cache, firstDoc, firstExp>>

\* lines 88-90: the call of _explode_archive
CallArchive ==
  /\ Visiting
  /\ get_content_maintype(Part) # "multipart"
  /\ CorrectedType(Part) \notin INCLUDE_TYPES
  /\ CorrectedType(Part) \in ARCHIVE_TYPES
  /\ Len(stack) < MaxDepth
  /\ stack' = Append(Advance, ArchiveFrame(Part.payload))
  /\ io' = NoIO
  /\ UNCHANGED <<pc, runs, input, container, meta, cache, firstDoc, firstExp>>

\* a variant of lines 92-97 reached by include and archive leaves too (the
\* tests of lines 84 and 88 not made)
AttachLeaf_Unguarded ==
  /\ Visiting
  /\ get_content_maintype(Part) # "multipart"
  /\ LET stamped == StampType(Top.nodes, Top.i, CorrectedType(Part))
         part == stamped[Top.i]
     IN /\ stack' = [stack EXCEPT ![Len(stack)] = [@ EXCEPT !.nodes = stamped, !.i = @ + 1]]
        /\ container' = attach_part(container, part)
        /\ meta' = Append(meta, Attached("leaf", Part.ctype, part))
  /\ io' = NoIO
  /\ UNCHANGED <<pc, runs, input, cache, firstDoc, firstExp>>

\* lines 92-97
AttachLeaf ==
  /\ Visiting
  /\ get_content_maintype(Part) # "multipart"
  /\ CorrectedType(Part) \notin INCLUDE_TYPES
  /\ CorrectedType(Part) \notin ARCHIVE_TYPES
  /\ LET stamped == StampType(Top.nodes, Top.i, CorrectedType(Part))
         part == stamped[Top.i]
     IN /\ stack' = [stack EXCEPT ![Len(stack)] = [@ EXCEPT !.nodes = stamped, !.i = @ + 1]]
        /\ container' = attach_part(container, part)
        /\ meta' = Append(meta, Attached("leaf", Part.ctype, part))
  /\ io' = NoIO
  /\ UNCHANGED <<pc, runs, input, cache, firstDoc, firstExp>>

\* the loop ends: _process_msg returns, to _do_include or to process
ReturnWalk ==
  /\ Running("walk")
  /\ Top.i > Len(Top.nodes)
  /\ stack' = Pop
  /\ pc' = IF Len(stack) = 1 THEN "returned" ELSE pc
  /\ firstExp' =
       IF Top.origin.how = "fetch" /\ Top.origin.once /\ Top.origin.ok
          /\ firstExp[Top.origin.url] = <<>>
       THEN [firstExp EXCEPT ![Top.origin.url] =
               <<[k \in 1..(Len(container.children) - Top.start) |->
                    container.children[Top.start + k].payload]>>]
       ELSE firstExp
  /\ io' = NoIO
  /\ UNCHANGED <<runs, input, container, meta, cache, firstDoc>>

----------------------------------------------------------------------------
(* _do_include, lines 107-136: one iteration of the loop over the lines *)

Line == IncludeLine(Top.lines[Top.i])

Including == Running("include") /\ Top.i <= Len(Top.lines)

\* a variant of line 126 that never consults the cache
UsesCache_Never(includeonce, files, fn) == FALSE

\* line 126: the content comes from the cache file
UsesCache(includeonce, files, fn) == includeonce /\ isfile(files, fn)

\* a variant of line 130 that writes every successfully fetched content
Written_Always(includeonce, st) == ok_http_code(st)

\* line 130: the fetched content is written to the cache file
Written(includeonce, st) == includeonce /\ ok_http_code(st)

\* lines 112-123
SkipLine ==
  /\ Including
  /\ Line.skip
  /\ stack' = Advance
  /\ io' = NoIO
  /\ UNCHANGED <<pc, runs, input, container, meta, cache, firstDoc, firstExp>>

\* lines 125-127 and 135-136
LoadCached ==
  /\ Including
  /\ ~Line.skip
  /\ LET fn == get_include_once_filename(Line.url)
     IN /\ UsesCache(Line.includeonce, cache, fn)
        /\ Len(stack) < MaxDepth
        /\ stack' = Append(Advance,
             WalkFrame(convert_string(cache[fn][1]),
                       [how |-> "load", once |-> Line.includeonce, url |-> Line.url, ok |-> TRUE]))
        /\ io' = [NoIO EXCEPT !.read = fn]
  /\ UNCHANGED <<pc, runs, input, container, meta, cache, firstDoc, firstExp>>

\* lines 125, 128-136
FetchUrl ==
  /\ Including
  /\ ~Line.skip
  /\ LET fn == get_include_once_filename(Line.url)
     IN /\ ~UsesCache(Line.includeonce, cache, fn)
        /\ Len(stack) < MaxDepth
        /\ \E reply \in readurl(Line.url) :
             LET written == Written(Line.includeonce, reply.st)
                 content == IF ~ok_http_code(reply.st) THEN Raw(P_empty) ELSE reply.content
             IN /\ cache' = IF written THEN [cache EXCEPT ![fn] = <<reply.content>>] ELSE cache
                /\ firstDoc' = IF written /\ firstDoc[Line.url] = <<>>
                               THEN [firstDoc EXCEPT ![Line.url] = <<reply.content>>]
                               ELSE firstDoc
                /\ io' = [fetch |-> Line.url, read |-> <<>>,
                          write |-> IF written THEN fn ELSE <<>>]
                /\ stack' = Append(Advance,
                     WalkFrame(convert_string(content),
                               [how |-> "fetch", once |-> Line.includeonce, url |-> Line.url,
                                ok |-> ok_http_code(reply.st)]))
  /\ UNCHANGED <<pc, runs, input, container, meta, firstExp>>

ReturnInclude ==
  /\ Running("include")
  /\ Top.i > Len(Top.lines)
  /\ stack' = Pop
  /\ io' = NoIO
  /\ UNCHANGED <<pc, runs, input, container, meta, cache, firstDoc, firstExp>>

----------------------------------------------------------------------------
(* _explode_archive, lines 138-174: one iteration of the loop over entries *)

Ent == Top.entries[Top.i]

Exploding == Running("archive") /\ Top.i <= Len(Top.entries)

\* lines 149-151
SkipEntry ==
  /\ Exploding
  /\ EntrySkipped(Ent)
  /\ stack' = Advance
  /\ io' = NoIO
  /\ UNCHANGED <<pc, runs, input, container, meta, cache, firstDoc, firstExp>>

\* lines 153-174
AttachEntry ==
  /\ Exploding
  /\ ~EntrySkipped(Ent)
  /\ ~EntryRaises(Ent)
  /\ stack' = Advance
  /\ container' = attach_part(container, EntryPart(Ent))
  /\ meta' = Append(meta, Attached("archive", EntryPart(Ent).ctype, EntryPart(Ent)))
  /\ io' = NoIO
  /\ UNCHANGED <<pc, runs, input, cache, firstDoc, firstExp>>

\* line 158 or line 172 raises: the exception leaves every frame, process included
RaiseEntry ==
  /\ Exploding
  /\ ~EntrySkipped(Ent)
  /\ EntryRaises(Ent)
  /\ pc' = "raised"
  /\ stack' = <<>>
  /\ io' = NoIO
  /\ UNCHANGED <<runs, input, container, meta, cache, firstDoc, firstExp>>

ReturnArchive ==
  /\ Running("archive")
  /\ Top.i > Len(Top.entries)
  /\ stack' = Pop
  /\ io' = NoIO
  /\ UNCHANGED <<pc, runs, input, container, meta, cache, firstDoc, firstExp>>

----------------------------------------------------------------------------

Next ==
  \/ Process
  \/ SkipMultipart
  \/ CallInclude
  \/ CallArchive
  \/ AttachLeaf
  \/ ReturnWalk
  \/ SkipLine
  \/ LoadCached
  \/ FetchUrl
  \/ ReturnInclude
  \/ SkipEntry
  \/ AttachEntry
  \/ RaiseEntry
  \/ ReturnArchive

Spec == Init /\ [][Next]_vars

\* The steps of a call of process.  The call is synchronous: once it is made,
\* the interpreter executes its statements one after the other, and every
\* fetch is taken to return.  When the next call is made is up to the caller.
Step ==
  \/ SkipMultipart
  \/ CallInclude
  \/ CallArchive
  \/ AttachLeaf
  \/ ReturnWalk
  \/ SkipLine
  \/ LoadCached
  \/ FetchUrl
  \/ ReturnInclude
  \/ SkipEntry
  \/ AttachEntry
  \/ RaiseEntry
  \/ ReturnArchive

LiveSpec == Init /\ [][Next]_vars /\ WF_vars(Step)

----------------------------------------------------------------------------
(* Properties *)

Children == container.children

\* the parts attached since the frame f was called
AttachedSince(f) ==
  [k \in 1..(Len(Children) - f.start) |-> Children[f.start + k]]

Payloads(parts) == [k \in 1..Len(parts) |-> parts[k].payload]

\* the k-th child as it was before _process_msg or _explode_archive handled it
Original(k) == [Children[k] EXCEPT !.ctype = meta[k].declared]

\* C1: when process returns, the container has a Number-Attachments header
\* and its value is the number of the container's children, also when
\* nothing was attached.
C1_CountHeaderPresent ==
  pc = "returned" =>
    /\ container.na # <<>>
    /\ IsDigits(container.na[1])
    /\ int(container.na[1]) = Len(Children)

\* C2: while the content of a plain "#include" URL whose fetch returned a
\* non-success status is expanded, the container gets no new part (the
\* line adds no attachment); the walk of that content returns to
\* _do_include, which goes on with the next line.
C2_FailedFetchAttachesNothing ==
  \A d \in 1..Len(stack) :
    (/\ stack[d].kind = "walk"
     /\ stack[d].origin.how = "fetch"
     /\ ~stack[d].origin.once
     /\ ~stack[d].origin.ok)
    => /\ Len(Children) = stack[d].start
       /\ stack[d - 1].kind = "include"

\* C4: no failure escapes process: no call of process ends by an exception.
C4_NoFailureEscapes == pc # "raised"

\* an include-once line for a URL whose first successful include-once fetch
\* has happened is about to be handled
OnceLineAgain(u) ==
  /\ Including
  /\ ~Line.skip
  /\ Line.includeonce
  /\ Line.url = u
  /\ firstDoc[u] # <<>>

\* the step fetches nothing and calls _process_msg on the content that the
\* first successful fetch of u stored
ExpandsStored(u) ==
  /\ io'.fetch = <<>>
  /\ Len(stack') = Len(stack) + 1
  /\ stack'[Len(stack')].kind = "walk"
  /\ stack'[Len(stack')].nodes = walk(convert_string(firstDoc[u][1]))

\* the walk of a content loaded from the cache is over
HitExpanded ==
  /\ Running("walk")
  /\ Top.origin.how = "load"
  /\ Top.i > Len(Top.nodes)
  /\ firstExp[Top.origin.url] # <<>>

\* the content has no include part of its own
NoNestedInclude(blob) ==
  \A k \in 1..Len(walk(convert_string(blob))) :
    CorrectedType(walk(convert_string(blob))[k]) \notin INCLUDE_TYPES

\* a later "#include-once" of a URL attaches the same payloads, in order, as
\* the expansion of its first successful fetch did
SameExpansionOnHit ==
  HitExpanded => Payloads(AttachedSince(Top)) = firstExp[Top.origin.url][1]

\* C3 as stated: once a URL has been fetched successfully through an
\* "#include-once" line, a later "#include-once" of it fetches nothing and
\* attaches the same expanded content as the first expansion did.
C3_IncludeOnceSameContent ==
  /\ [][\A u \in KnownURLs : OnceLineAgain(u) => ExpandsStored(u)]_vars
  /\ []SameExpansionOnHit

\* C3, amended: once a URL has been fetched successfully through an
\* "#include-once" line, a later "#include-once" of it fetches nothing and
\* expands the content stored by that first fetch; the parts attached are
\* the same as the first time when that content has no include part of its
\* own.
C3_HitExpandsStoredContent ==
  /\ [][\A u \in KnownURLs : OnceLineAgain(u) => ExpandsStored(u)]_vars
  /\ [](HitExpanded /\ NoNestedInclude(firstDoc[Top.origin.url][1])
          => Payloads(AttachedSince(Top)) = firstExp[Top.origin.url][1])

C3_Witness ==
  /\ HitExpanded
  /\ runs = 2
  /\ NoNestedInclude(firstDoc[Top.origin.url][1])
  /\ Len(AttachedSince(Top)) > 0
  /\ io.fetch = <<>>


\* C5: every child attached as a plain leaf has a Content-Type header equal
\* to its corrected type (the sniffed type for a generic declared type with
\* a known prefix, the declared type otherwise).
C5_LeafCarriesCorrectedType ==
  \A k \in 1..Len(Children) :
    meta[k].via = "leaf" => Children[k].ctype = CorrectedType(Original(k))

\* C6: every child of the container has a disposition header with a
\* filename, and no two synthesized filenames of one container are equal.
C6_Filenames ==
  /\ \A k \in 1..Len(Children) :
       /\ Children[k].disp # <<>>
       /\ get_filename(Children[k]) # None
  /\ \A j, k \in 1..Len(Children) :
       (j # k /\ meta[j].synth /\ meta[k].synth)
       => get_filename(Children[j]) # get_filename(Children[k])

\* the part _explode_archive attaches for a string or mapping entry: its
\* content as payload, its filename kept, or else the synthesized one
ExpectedEntryPart(ent) ==
  LET d == IF ent.t = "dict" THEN ent.v ELSE [content |-> ent.v]
  IN [payload |-> EntryContent(d),
      filename |-> IF "filename" \in DOMAIN d THEN d.filename
                   ELSE PART_FN_TPL(Len(Children) + 1)]

\* the entry is a string or a mapping
StringOrMapping(ent) == ent.t \in {"str", "unicode", "dict"}

\* C7: handling an entry of an archive attaches exactly one part when the
\* entry is a string or a mapping (the entry's content as it is, under the
\* entry's filename or a synthesized one), appended after the parts already
\* there, and nothing when it is anything else; nothing is resolved further.
C7_OnePartPerEntry ==
  [][Exploding =>
       /\ Len(stack') = Len(stack)
       /\ IF ~StringOrMapping(Ent)
          THEN container' = container
          ELSE /\ Len(container'.children) = Len(Children) + 1
               /\ SubSeq(container'.children, 1, Len(Children)) = Children
               /\ container'.children[Len(Children) + 1].payload
                    = ExpectedEntryPart(Ent).payload
               /\ get_filename(container'.children[Len(Children) + 1])
                    = ExpectedEntryPart(Ent).filename]_vars

\* the input is a multipart document whose parts are all plain leaves
FlatPlain(blob) ==
  /\ blob.mime
  /\ get_content_maintype(blob.msg) = "multipart"
  /\ \A k \in 1..Len(blob.msg.children) :
       /\ blob.msg.children[k].children = <<>>
       /\ get_content_maintype(blob.msg.children[k]) # "multipart"
       /\ CorrectedType(blob.msg.children[k]) \notin INCLUDE_TYPES \cup ARCHIVE_TYPES

\* C8: processing a multipart document of n plain leaves returns a container
\* of exactly n children, in the order of the leaves, each with the payload
\* of its leaf.
C8_RoundTrip ==
  (pc = "returned" /\ FlatPlain(input)) =>
    /\ Len(Children) = Len(input.msg.children)
    /\ \A k \in 1..Len(Children) : Children[k].payload = input.msg.children[k].payload

C8_Witness ==
  /\ pc = "returned"
  /\ FlatPlain(input)
  /\ Len(input.msg.children) >= 3
  /\ Len(Children) = Len(input.msg.children)

\* C9: a leaf whose resulting type (declared, or sniffed from a generic
\* declared type) is an include or an archive type is never attached to the
\* container itself.
C9_SpecialLeafNotAttached ==
  \A k \in 1..Len(Children) :
    meta[k].via = "leaf"
    => CorrectedType(Original(k)) \notin INCLUDE_TYPES \cup ARCHIVE_TYPES

\* the input is one leaf of include or archive kind, by sniffing or by
\* declaration, and process has returned
C9_Witness ==
  /\ pc = "returned"
  /\ walk(convert_string(input)) = <<convert_string(input)>>
  /\ CorrectedType(convert_string(input)) \in INCLUDE_TYPES \cup ARCHIVE_TYPES
  /\ \A k \in 1..Len(Children) : Children[k].payload # convert_string(input).payload

\* the plain leaves of a message tree
PlainLeaves(msg) ==
  {n \in {walk(msg)[k] : k \in 1..Len(walk(msg))} :
     /\ get_content_maintype(n) # "multipart"
     /\ CorrectedType(n) \notin INCLUDE_TYPES \cup ARCHIVE_TYPES}

\* when process returns, every plain leaf of the input, at any depth, is a
\* child of the container
LeavesAttached ==
  pc = "returned" =>
    \A n \in PlainLeaves(convert_string(input)) :
      \E k \in 1..Len(Children) :
        meta[k].via = "leaf" /\ Children[k].payload = n.payload

\* C10 as stated: in every state no child of the container is a multipart
\* node (none has main type multipart, none has sub-parts), and every plain
\* leaf below the multipart nodes of the input is attached to the container.
C10_NoMultipartChild ==
  /\ \A k \in 1..Len(Children) :
       /\ get_content_maintype(Children[k]) # "multipart"
       /\ Children[k].children = <<>>
  /\ LeavesAttached

\* C10, amended: in every state no child of the container has sub-parts and
\* none attached from a message tree (the input or an included document) had
\* main type multipart when it was visited; every plain leaf of the input is
\* attached to the container.  (A part made of an archive entry has the type
\* the entry declares, multipart/* included.)
C10_Flattened ==
  /\ \A k \in 1..Len(Children) :
       /\ Children[k].children = <<>>
       /\ meta[k].via = "leaf" => get_content_maintype(Original(k)) # "multipart"
  /\ LeavesAttached

\* a document with a multipart node below the root has been processed
C10_Witness ==
  /\ pc = "returned"
  /\ input.mime
  /\ \E k \in 1..Len(input.msg.children) : input.msg.children[k].children # <<>>
  /\ Len(Children) >= 2

\* the line about to be handled begins with the marker
LineBegins(marker) == startswith(Top.lines[Top.i], marker)

\* the step fetched a URL and the status was no success
FailedFetchStep ==
  /\ io'.fetch # <<>>
  /\ ~stack'[Len(stack')].origin.ok

\* C11: the include cache changes only in a step that successfully fetches
\* the URL of an "#include-once" line that has no cache entry, and then only
\* that URL's entry changes; the step for a plain "#include" line fetches the
\* URL and neither reads nor writes the cache; a fetch with a non-success
\* status leaves the cache as it was.
C11_CacheChangesOnlyOnOnceFetch ==
  [][/\ cache' # cache =>
          /\ Including
          /\ ~Line.skip
          /\ LineBegins("#include-once")
          /\ cache[get_include_once_filename(Line.url)] = <<>>
          /\ io'.fetch = Line.url
          /\ ~FailedFetchStep
          /\ \A fn \in Files \ {get_include_once_filename(Line.url)} : cache'[fn] = cache[fn]
     /\ (Including /\ ~Line.skip /\ LineBegins("#include") /\ ~LineBegins("#include-once")) =>
          /\ io'.fetch = Line.url
          /\ io'.read = <<>>
          /\ io'.write = <<>>
          /\ cache' = cache
     /\ (Including /\ ~Line.skip /\ FailedFetchStep) => cache' = cache]_vars

\* in a second call of process, the fetch of an "#include-once" URL has just
\* failed and has left the URL without a cache entry, while another URL has
\* the entry a successful fetch wrote
C11_Witness ==
  /\ Running("walk")
  /\ runs = 2
  /\ Top.origin.how = "fetch"
  /\ Top.origin.once
  /\ ~Top.origin.ok
  /\ Top.i = 1
  /\ io.fetch = Top.origin.url
  /\ io.write = <<>>
  /\ cache[get_include_once_filename(Top.origin.url)] = <<>>
  /\ \E fn \in Files : cache[fn] # <<>>

\* the URLs an include payload asks for
IncludeURLs(payload) ==
  {IncludeLine(payload.text[k]).url :
     k \in {j \in 1..Len(payload.text) : ~IncludeLine(payload.text[j]).skip}}

\* the URLs the expansion of a document asks for, its own includes only
DocURLs(blob) ==
  LET nodes == walk(convert_string(blob))
  IN UNION {IncludeURLs(nodes[k].payload) :
              k \in {j \in 1..Len(nodes) :
                        /\ get_content_maintype(nodes[j]) # "multipart"
                        /\ CorrectedType(nodes[j]) \in INCLUDE_TYPES}}

\* the URLs the documents a URL may successfully serve ask for
Served(u) == UNION {DocURLs(r.content) : r \in {q \in readurl(u) : ok_http_code(q.st)}}

\* the URLs reachable from those of S in at most n further includes
RECURSIVE Reach(_, _)
Reach(S, n) == IF n = 0 THEN S ELSE Reach(S \cup UNION {Served(u) : u \in S}, n - 1)

\* u's content includes u again, directly or through further includes
SelfIncluding(u) == u \in Reach(Served(u), Cardinality(KnownURLs))

\* an include cycle is reachable from the document
Cyclic(blob) ==
  \E u \in Reach(DocURLs(blob), Cardinality(KnownURLs)) : SelfIncluding(u)

\* the content of a self-including URL, successfully obtained, is being expanded
InCycle ==
  /\ pc = "running"
  /\ \E d \in 1..Len(stack) :
       /\ stack[d].kind = "walk"
       /\ stack[d].origin.how \in {"fetch", "load"}
       /\ stack[d].origin.ok
       /\ SelfIncluding(stack[d].origin.url)

\* C12: a call of process on a document from which no include cycle is
\* reachable eventually returns (every fetch returning).
C12_AcyclicReturns ==
  \A n \in 1..MaxRuns :
    (pc = "running" /\ runs = n /\ ~Cyclic(input)) ~> (pc = "returned" /\ runs = n)

\* C12 with the exception of lines 158 and 172 counted as an end: a call of
\* process on a document from which no include cycle is reachable eventually
\* ends, by returning or by raising.
C12_AcyclicEnds ==
  \A n \in 1..MaxRuns :
    (pc = "running" /\ runs = n /\ ~Cyclic(input))
      ~> (pc \in {"returned", "raised"} /\ runs = n)

\* C12, second part: once the content of a self-including URL is being
\* expanded, by "#include" or by "#include-once" (cache hit included), the
\* call of process never returns.
C12_CycleNeverReturns ==
  [][InCycle => pc' = "running"]_vars

\* the expansion of a self-including URL has recursed through a cache hit
C12_Witness ==
  /\ InCycle
  /\ \E d \in 1..Len(stack) :
       /\ stack[d].kind = "walk"
       /\ stack[d].origin.how = "load"
       /\ SelfIncluding(stack[d].origin.url)

\* address a comes before address b in depth-first document order
RECURSIVE Before(_, _)
Before(a, b) ==
  IF a = <<>> \/ b = <<>> THEN a = <<>> /\ b # <<>>
  ELSE a[1] < b[1] \/ (a[1] = b[1] /\ Before(Tail(a), Tail(b)))

\* C13: the children of the container are the attached parts in depth-first
\* document order: the k-th child is the k-th part attached, and of two
\* children the earlier one comes from the earlier place (node of a walk,
\* then line of an include or entry of an archive, then node of the included
\* document, and so on), so the parts of one include line or one archive are
\* next to each other, after those of what precedes it and before those of
\* what follows it.
C13_DepthFirstOrder ==
  /\ Len(meta) = Len(Children)
  /\ \A k \in 1..Len(Children) :
       /\ Children[k].payload = meta[k].payload
       /\ \A j \in 1..(k - 1) : Before(meta[j].addr, meta[k].addr)

\* process has returned a container with the part of a leaf, after it a part
\* of an included document, after it a part of an archive
C13_Witness ==
  /\ pc = "returned"
  /\ \E i, j, k \in 1..Len(Children) :
       /\ i < j
       /\ j < k
       /\ Len(meta[i].addr) = 1
       /\ Len(meta[j].addr) > 2
       /\ meta[j].via = "leaf"
       /\ meta[k].via = "archive"

\* the leaf about to be visited has a declared type that is not generic, or
\* a payload that begins with no known prefix
NotSniffed(part) ==
  \/ get_content_type(part) \notin TYPE_NEEDED
  \/ type_from_starts_with(part.payload, None) = None

\* the step attached the part as the last child, without calling anything
AttachedAs(part, ctype) ==
  /\ Len(stack') = Len(stack)
  /\ Len(container'.children) = Len(Children) + 1
  /\ container'.children[Len(Children) + 1].payload = part.payload
  /\ get_content_type(container'.children[Len(Children) + 1]) = ctype

\* the step called the loop of the given kind on the payload and attached nothing
Resolved(kind) ==
  /\ Len(stack') = Len(stack) + 1
  /\ stack'[Len(stack')].kind = kind
  /\ container' = container

\* C14: a leaf whose declared type is not one of text/plain and
\* text/x-not-multipart is handled as its declared type whatever its payload
\* begins with (attached with that type, unless that type is itself an
\* include or archive type), and a leaf of a generic type whose payload
\* begins with no known prefix is attached with its declared type.
C14_SniffOnlyGeneric ==
  [][(Visiting /\ get_content_maintype(Part) # "multipart" /\ NotSniffed(Part)) =>
       IF get_content_type(Part) \in INCLUDE_TYPES THEN Resolved("include")
       ELSE IF get_content_type(Part) \in ARCHIVE_TYPES THEN Resolved("archive")
       ELSE AttachedAs(Part, get_content_type(Part))]_vars

\* a text/x-shellscript leaf whose payload begins with "#include" has been
\* attached as text/x-shellscript, and before it a text/plain leaf whose
\* payload begins with no known prefix as text/plain
C14_Witness ==
  \E j, k \in 1..Len(Children) :
    /\ j < k
    /\ meta[j].via = "leaf"
    /\ meta[j].declared = <<"text", "plain">>
    /\ type_from_starts_with(Children[j].payload, None) = None
    /\ get_content_type(Children[j]) = <<"text", "plain">>
    /\ meta[k].via = "leaf"
    /\ meta[k].declared = <<"text", "x-shellscript">>
    /\ PayloadStartsWith(Children[k].payload, "#include")
    /\ get_content_type(Children[k]) = <<"text", "x-shellscript">>

\* C15: whether a URL goes through the cache is decided by its own line: the
\* step for a line that begins with "#include-once" loads the cache entry
\* when there is one and otherwise fetches and, on success, writes it; the
\* step for any other line, in a part of whatever type (text/x-include-url
\* or text/x-include-once-url), fetches the URL and neither reads nor writes
\* the cache.
C15_EligibilityByLineMarker ==
  [][(Including /\ ~Line.skip) =>
       \A ctype \in INCLUDE_TYPES :
         Top.ctype = ctype =>
           IF LineBegins("#include-once")
           THEN IF cache[get_include_once_filename(Line.url)] # <<>>
                THEN /\ io'.read = get_include_once_filename(Line.url)
                     /\ io'.fetch = <<>>
                     /\ io'.write = <<>>
                ELSE /\ io'.fetch = Line.url
                     /\ io'.read = <<>>
                     /\ io'.write = IF FailedFetchStep THEN <<>>
                                    ELSE get_include_once_filename(Line.url)
           ELSE /\ io'.fetch = Line.url
                /\ io'.read = <<>>
                /\ io'.write = <<>>
                /\ cache' = cache]_vars

\* in a part of type text/x-include-once-url, the URL of a line without
\* marker has been fetched successfully a second time, and it has no cache
\* entry
C15_Witness ==
  /\ Running("walk")
  /\ Len(stack) > 2
  /\ stack[Len(stack) - 1].kind = "include"
  /\ stack[Len(stack) - 1].ctype = <<"text", "x-include-once-url">>
  /\ stack[Len(stack) - 1].i = 4
  /\ Top.origin.how = "fetch"
  /\ ~Top.origin.once
  /\ Top.origin.ok
  /\ io.fetch = Top.origin.url
  /\ Len(Children) = 1
  /\ Children[1].payload # P_empty
  /\ cache[get_include_once_filename(Top.origin.url)] = <<>>

\* C16: a cache entry, once it exists, is never changed nor removed by any
\* step of any call of process: it is the content of the first successful
\* "#include-once" fetch of its URL, and that content is what a later
\* "#include-once" of the URL expands, whatever the server answers by then.
C16_CacheWriteOnce ==
  /\ [][\A fn \in Files : cache[fn] # <<>> => cache'[fn] = cache[fn]]_vars
  /\ [](\A u \in KnownURLs :
          cache[get_include_once_filename(u)] # <<>>
            => cache[get_include_once_filename(u)] = firstDoc[u])
  /\ []((Running("walk") /\ Top.origin.how = "load" /\ Top.i = 1)
          => Top.nodes = walk(convert_string(firstDoc[Top.origin.url][1])))

\* in a second call of process the server has answered a plain "#include"
\* of u1 with other content than the cache entry of u1 holds, and the
\* "#include-once" of u1 that follows expands the cache entry
C16_Witness ==
  /\ Running("walk")
  /\ runs = 2
  /\ Top.origin.how = "load"
  /\ Top.origin.url = U1
  /\ Top.i = 1
  /\ Top.nodes[1].payload = P_hello
  /\ cache[get_include_once_filename(U1)] = <<Raw(P_hello)>>
  /\ Len(Children) = 1
  /\ Children[1].payload = P_sh

\* the attachment count of the container, as _multi_part_count reads it
Count(outer_msg) == multi_part_count(outer_msg, <<>>).count

\* C17: every attach appends one child and raises the attachment count by
\* exactly one, whether or not it synthesized a filename, and the filename
\* synthesized for the k-th child is the template filename for k.
C17_SequenceNumberIsPosition ==
  /\ [][(pc = "running" /\ container' # container) =>
          /\ Len(container'.children) = Len(Children) + 1
          /\ SubSeq(container'.children, 1, Len(Children)) = Children
          /\ Count(container') = Count(container) + 1
          /\ container'.na = <<str(Len(container'.children))>>]_vars
  /\ [](\A k \in 1..Len(Children) :
          meta[k].synth => get_filename(Children[k]) = PART_FN_TPL(k))

\* the third child got the filename part-003 after a second child that came
\* with a filename of its own
C17_Witness ==
  /\ Len(Children) >= 3
  /\ ~meta[2].synth
  /\ get_filename(Children[2]) # PART_FN_TPL(2)
  /\ meta[3].synth
  /\ get_filename(Children[3]) = <<"part-", "0", "0", "3">>
  /\ Count(container) = Len(Children)

====
